---- MODULE Spec2Model ----
(***************************************************************************)
(* Model of owrx/service/schedule.py: the schedule strategies and the      *)
(* ServiceScheduler control loop, with the timer threads (threading.Timer) *)
(* running selectProfile() concurrently with the event callbacks.          *)
(* Time is in seconds since a midnight (UTC).                              *)
(* A last section models owrx/dxcluster.py: the start() and stop() calls  *)
(* of DXClusterClient and its reader threads.                              *)
(***************************************************************************)
EXTENDS Integers, Sequences, FiniteSets, TLC

\* ------------------------------------------------------------------ bounds
\* number of armed timers that self.selectionTimer has lost the reference to
MaxOrphans == 1
\* number of external events (callbacks into the scheduler) in one behaviour
MaxEvents == 2
\* number of start() calls on the DX cluster client (reader threads created)
MaxStarts == 2
\* the instants the clock visits (seconds)
Instants == {0, 10, 60, 120}

\* ------------------------------------------------------------- constants
\* scheduleSelection(): seconds = 10
DefaultDelay == 10
\* RotationSchedule.__init__: default interval, minutes
DefaultInterval == 5
\* RotationSchedule.__init__: * 60, minutes to seconds
SecondsPerMinute == 60
\* timedelta(days=1)
Day == 86400
\* StaticSchedule.__init__: len(time) != 9
KeyLen == 9

NoTime == -1
NoTimer == [st |-> "none"]
NoEntry == [kind |-> "none"]
NoSchedule == [type |-> "none"]

\* the thread that delivers the callbacks, and the thread of the timer that fired: one
\* selectProfile() run at a time, concurrent with the callbacks
EventThread == "event"
TimerThread == "timer"
Timers == {TimerThread}
Threads == {EventThread, TimerThread}

\* ------------------------------------------------------- schedule entries
\* mutant of TimeIsCurrent: a window is never taken to span midnight
TimeIsCurrentNoWrap(e, dt) ==
    LET time == dt % Day IN e.startTime <= time /\ time < e.endTime

\* TimeScheduleEntry.isCurrent(dt): startTime, endTime are times of day
TimeIsCurrent(e, dt) ==
    LET time == dt % Day IN
    IF e.startTime < e.endTime
    THEN e.startTime <= time /\ time < e.endTime
    ELSE e.startTime <= time \/ time < e.endTime

\* mutant of ProjectForward: the time of day on the date of now, also when it has passed
ProjectToday(t, now) == (now - (now % Day)) + t

\* now.combine(date=now.date(), time=t); while x < now: x += timedelta(days=1)
ProjectForward(t, now) ==
    LET x == (now - (now % Day)) + t IN
    IF x < now THEN x + Day ELSE x

\* ScheduleEntry.isCurrent(dt), by kind of entry
IsCurrent(e, dt) ==
    IF e.kind = "time" THEN TimeIsCurrent(e, dt)
    ELSE e.startTime <= dt /\ dt < e.endTime

\* ScheduleEntry.getScheduledEnd(), evaluated at utcnow() = now
GetScheduledEnd(e, now) ==
    IF e.kind = "time" THEN ProjectForward(e.endTime, now) ELSE e.endTime

\* ScheduleEntry.getNextActivation(), evaluated at utcnow() = now
GetNextActivation(e, now) ==
    IF e.kind = "time" THEN ProjectForward(e.startTime, now)
    ELSE IF e.kind = "rotation" THEN e.endTime
    ELSE e.startTime

\* RotationScheduleEntry(profile, end_time): startTime is utcnow()
RotationScheduleEntry(profile, end_time, now) ==
    [kind |-> "rotation", startTime |-> now, endTime |-> end_time, profile |-> profile]

\* ------------------------------------------------------------- schedules
Digit(c) ==
    CASE c = "0" -> 0 [] c = "1" -> 1 [] c = "2" -> 2 [] c = "3" -> 3 [] c = "4" -> 4
      [] c = "5" -> 5 [] c = "6" -> 6 [] c = "7" -> 7 [] c = "8" -> 8 [] c = "9" -> 9
      [] OTHER -> -1

\* datetime.strptime(s, "%H%M").time(), as seconds of the day; s is 4 characters
ParseHHMM(s) ==
    ((Digit(s[1]) * 10 + Digit(s[2])) * 60 + (Digit(s[3]) * 10 + Digit(s[4]))) * 60

RECURSIVE StaticEntries(_)
\* StaticSchedule.__init__: one TimeScheduleEntry per key of length 9, in dict order
StaticEntries(items) ==
    IF items = <<>> THEN <<>>
    ELSE LET time == Head(items)[1]
             profile == Head(items)[2]
         IN IF Len(time) # KeyLen
            THEN StaticEntries(Tail(items))
            ELSE << [kind |-> "time",
                     startTime |-> ParseHHMM(SubSeq(time, 1, 4)),
                     endTime |-> ParseHHMM(SubSeq(time, 6, 9)),
                     profile |-> profile] >> \o StaticEntries(Tail(items))

StaticSchedule(scheduleDict) ==
    [type |-> "static", entries |-> StaticEntries(scheduleDict)]

RotationSchedule(scheduleDict) ==
    [type |-> "rotation",
     profiles |-> IF "profiles" \in DOMAIN scheduleDict THEN scheduleDict.profiles ELSE <<>>,
     interval |-> (IF "interval" \in DOMAIN scheduleDict
                   THEN scheduleDict.interval ELSE DefaultInterval) * SecondsPerMinute,
     current_index |-> 0,
     current_end_time |-> NoTime]

DaylightSchedule(scheduleDict) ==
    [type |-> "daylight", schedule |-> scheduleDict]

\* mutant of Parse: a type that is none of the three is taken for static
ParseLenient(props) ==
    IF "scheduler" \in DOMAIN props
    THEN LET sc == props.scheduler
             t == IF "type" \in DOMAIN sc THEN sc.type ELSE "static"
         IN IF t = "daylight" THEN DaylightSchedule(sc.schedule)
            ELSE IF t = "rotation" THEN RotationSchedule(sc.schedule)
            ELSE StaticSchedule(sc.schedule)
    ELSE IF "schedule" \in DOMAIN props THEN StaticSchedule(props.schedule)
    ELSE NoSchedule

\* Schedule.parse(props)
Parse(props) ==
    IF "scheduler" \in DOMAIN props
    THEN LET sc == props.scheduler
             t == IF "type" \in DOMAIN sc THEN sc.type ELSE "static"
         IN IF t = "static" THEN StaticSchedule(sc.schedule)
            ELSE IF t = "daylight" THEN DaylightSchedule(sc.schedule)
            ELSE IF t = "rotation" THEN RotationSchedule(sc.schedule)
            ELSE NoSchedule
    ELSE IF "schedule" \in DOMAIN props THEN StaticSchedule(props.schedule)
    ELSE NoSchedule

\* TimerangeSchedule.getEntries()
GetEntries(s, now) == s.entries

\* TimerangeSchedule.getCurrentEntry()
TimerangeCurrentEntry(s, now) ==
    LET es == GetEntries(s, now)
        current == SelectSeq(es, LAMBDA p : IsCurrent(p, now))
    IN IF current # <<>> THEN current[1] ELSE NoEntry

\* mutant of TimerangeNextEntry: the first entry, whatever its next activation
TimerangeNextEntryFirst(s, now) ==
    LET es == GetEntries(s, now) IN IF es = <<>> THEN NoEntry ELSE es[1]

\* TimerangeSchedule.getNextEntry(): sorted() is stable, s[0] is the first minimum
TimerangeNextEntry(s, now) ==
    LET es == GetEntries(s, now) IN
    IF es = <<>> THEN NoEntry
    ELSE LET i == CHOOSE i \in 1 .. Len(es) :
                    /\ \A j \in 1 .. Len(es) :
                         GetNextActivation(es[i], now) <= GetNextActivation(es[j], now)
                    /\ \A j \in 1 .. (i - 1) :
                         GetNextActivation(es[j], now) > GetNextActivation(es[i], now)
         IN es[i]

\* mutant of RotationAdvance: the new end time is counted from the end time that passed
RotationAdvanceNoDrift(s, now) ==
    LET expired == s.current_end_time # NoTime /\ now >= s.current_end_time
        idx == IF expired THEN (s.current_index + 1) % Len(s.profiles) ELSE s.current_index
        end == IF expired THEN s.current_end_time + s.interval
               ELSE IF s.current_end_time = NoTime THEN now + s.interval
               ELSE s.current_end_time
    IN [s EXCEPT !.current_index = idx, !.current_end_time = end]

\* RotationSchedule.getCurrentEntry(): the schedule after the call
RotationAdvance(s, now) ==
    LET expired == s.current_end_time # NoTime /\ now >= s.current_end_time
        idx == IF expired THEN (s.current_index + 1) % Len(s.profiles) ELSE s.current_index
        end == IF expired \/ s.current_end_time = NoTime
               THEN now + s.interval ELSE s.current_end_time
    IN [s EXCEPT !.current_index = idx, !.current_end_time = end]

\* RotationSchedule.getCurrentEntry(): the entry returned
RotationCurrentEntry(s, now) ==
    IF s.profiles = <<>> THEN NoEntry
    ELSE LET n == RotationAdvance(s, now) IN
         RotationScheduleEntry(n.profiles[n.current_index + 1], n.current_end_time, now)

\* RotationSchedule.getNextEntry()
RotationNextEntry(s, now) ==
    IF s.profiles = <<>> THEN NoEntry
    ELSE LET next_index == (s.current_index + 1) % Len(s.profiles)
             next_start == IF s.current_end_time # NoTime THEN s.current_end_time ELSE now
             next_end == next_start + s.interval
         IN RotationScheduleEntry(s.profiles[next_index + 1], next_end, now)

\* schedule.getCurrentEntry(): the entry
GetCurrentEntry(s, now) ==
    IF s.type = "rotation" THEN RotationCurrentEntry(s, now) ELSE TimerangeCurrentEntry(s, now)

\* schedule.getCurrentEntry(): the schedule object after the call
AfterGetCurrentEntry(s, now) ==
    IF s.type = "rotation" /\ s.profiles # <<>> THEN RotationAdvance(s, now) ELSE s

\* schedule.getNextEntry()
GetNextEntry(s, now) ==
    IF s.type = "rotation" THEN RotationNextEntry(s, now) ELSE TimerangeNextEntry(s, now)

\* DaylightSchedule.greyLineTime = timedelta(hours=1)
GreyLineTime == 3600

\* DatetimeScheduleEntry(startTime, endTime, profile)
DatetimeScheduleEntry(startTime, endTime, profile) ==
    [kind |-> "datetime", startTime |-> startTime, endTime |-> endTime, profile |-> profile]

\* what getSunTimes(date) gives for the receiver's position: the offsets of sunrise and
\* sunset from the midnight of the date (the same on the few days around now), or a
\* ValueError from math.acos when the position has no sunrise on the date
SunError == [ok |-> FALSE]
SunOutcomes == {SunError, [ok |-> TRUE, sunrise |-> 21600, sunset |-> 64800]}

\* getEntries: the sunrise and the sunset of the date whose midnight is d that are in the
\* future, events = [v for v in events if v["time"] + delta > now]
SunEvents(d, sun, delta, now) ==
    SelectSeq(<< [type |-> "sunrise", time |-> d + sun.sunrise],
                 [type |-> "sunset", time |-> d + sun.sunset] >>,
              LAMBDA v : v.time + delta > now)

RECURSIVE FutureEvents(_, _, _, _)
\* getEntries: while len(events) < 1, one more date, from the date whose midnight is d
FutureEvents(d, sun, delta, now) ==
    IF SunEvents(d, sun, delta, now) # <<>>
    THEN SunEvents(d, sun, delta, now)
    ELSE FutureEvents(d + Day, sun, delta, now)

\* getEntries: events.sort(key=lambda e: e["time"]), of one or two events
SortEvents(events) ==
    IF Len(events) = 2 /\ events[2].time < events[1].time
    THEN <<events[2], events[1]>> ELSE events

RECURSIVE PhaseEntries(_, _, _, _, _)
\* getEntries: for event in events, previousEvent being NoTime for None
PhaseEntries(events, previousEvent, sd, delta, now) ==
    IF events = <<>> THEN <<>>
    ELSE LET event == Head(events)
             stype == IF event.type = "sunrise" THEN "night" ELSE "day"
             phase == IF stype \in DOMAIN sd
                         /\ (previousEvent # NoTime \/ event.time - delta > now)
                      THEN << DatetimeScheduleEntry(
                                 IF previousEvent = NoTime THEN now ELSE previousEvent,
                                 event.time - delta, sd[stype]) >>
                      ELSE <<>>
             grey == IF "greyline" \in DOMAIN sd
                     THEN << DatetimeScheduleEntry(event.time - delta, event.time + delta,
                                                   sd.greyline) >>
                     ELSE <<>>
         IN phase \o grey \o PhaseEntries(Tail(events), event.time + delta, sd, delta, now)

\* mutant of DaylightEntries: the grey line has no width
DaylightEntriesNoPad(s, sun, now) ==
    LET events == SortEvents(FutureEvents((now - (now % Day)) - Day, sun, 0, now))
    IN PhaseEntries(events, NoTime, s.schedule, 0, now)

\* DaylightSchedule.getEntries(), getSunTimes() giving sun
DaylightEntries(s, sun, now) ==
    LET delta == IF "greyline" \in DOMAIN s.schedule THEN GreyLineTime ELSE 0
        events == SortEvents(FutureEvents((now - (now % Day)) - Day, sun, delta, now))
    IN PhaseEntries(events, NoTime, s.schedule, delta, now)

\* getCurrentEntry() or getNextEntry() of a daylight schedule, getSunTimes() giving sun
DaylightOutcome(s, sun, now, current) ==
    [raised |-> IF sun.ok THEN "" ELSE "ValueError",
     entry |-> IF sun.ok
               THEN LET d == [type |-> "static", entries |-> DaylightEntries(s, sun, now)]
                    IN IF current THEN TimerangeCurrentEntry(d, now)
                       ELSE TimerangeNextEntry(d, now)
               ELSE NoEntry]

\* what a call of getCurrentEntry() or getNextEntry() on the schedule can do: for a
\* daylight schedule it depends on getSunTimes()
QueryOutcomes(s, now, current) ==
    IF s.type = "daylight"
    THEN {DaylightOutcome(s, sun, now, current) : sun \in SunOutcomes}
    ELSE {[raised |-> "",
           entry |-> IF current THEN GetCurrentEntry(s, now) ELSE GetNextEntry(s, now)]}


\* ------------------------------------------------------------ the source
\* profile ids the source knows: activateProfile raises KeyError for any other
SrcProfiles == {"a"}

\* SdrSourceState and SdrBusyState
SdrSourceStates == {"STOPPED", "STARTING", "RUNNING", "STOPPING", "TUNING"}
SdrBusyStates == {"IDLE", "BUSY"}

Key0000_0001 == <<"0", "0", "0", "0", "-", "0", "0", "0", "1">>
Key0002_0003 == <<"0", "0", "0", "2", "-", "0", "0", "0", "3">>

\* values of the "scheduler" property in the behaviours explored
StaticConfig ==
    [type |-> "static", schedule |-> << <<Key0000_0001, "a">>, <<Key0002_0003, "x">> >>]
EmptyConfig ==
    [type |-> "rotation", schedule |-> [interval |-> 1]]

BaseProps == [center_freq |-> 1, samp_rate |-> 1]
WithScheduler(sc) == [center_freq |-> 1, samp_rate |-> 1, scheduler |-> sc]
PropsSet == {BaseProps} \cup {WithScheduler(sc) : sc \in {StaticConfig, EmptyConfig}}

\* ---------------------------------------------------------------- state
VARIABLES
    now,            \* datetime.utcnow()
    enabled,        \* source.isEnabled()
    failed,         \* source.isFailed()
    users,          \* source.hasClients(SdrClientClass.USER)
    props,          \* source.getProps()
    srcProfile,     \* the profile active on the source ("" before any activation)
    registered,     \* the scheduler is among the source's clients
    schedule,       \* self.schedule
    currentEntry,   \* self.currentEntry
    selectionTimer, \* self.selectionTimer: the threading.Timer object, or NoTimer
    orphans,        \* the due times of the armed timers nothing refers to any more
    subscriptions,  \* self.subscriptions
    cancels,        \* per subscription, the number of cancel() calls it received
    pc,             \* per thread, its position in the code
    ret,            \* per thread, where scheduleSelection() returns to
    sret,           \* per thread, where _setCurrentEntry() returns to
    entry,          \* per thread, the argument of _setCurrentEntry()
    targ,           \* per thread, the argument of scheduleSelection()
    secs,           \* per thread, the local seconds of scheduleSelection()
    calls,          \* per thread, the calls made by its current (or last) run
    exc,            \* per thread, the exception that ended its last run ("" if none)
    handler,        \* the callback the event thread runs (or ran last)
    harg,           \* its argument
    nEvents,        \* number of callbacks delivered so far
    running,        \* DXClusterClient: self.running
    thread,         \* DXClusterClient: self.thread, the reader it refers to, or NoThread
    connected,      \* DXClusterClient: self.connected
    readers,        \* per reader thread ever started, its position in _reader_thread
    caller          \* the position of the thread that calls start() and stop()

srcVars == <<enabled, failed, users, props, srcProfile, registered>>
schedVars == <<schedule, currentEntry, selectionTimer, orphans, subscriptions, cancels>>
localVars == <<ret, sret, entry, targ, secs>>
dxVars == <<running, thread, connected, readers, caller>>
svcVars == <<now, srcVars, schedVars, pc, localVars, calls, exc, handler, harg, nEvents>>
vars == <<svcVars, dxVars>>

\* self.thread = None
NoThread == 0

\* nobody is inside start() or stop()
NoCall == [pc |-> "idle", op |-> ""]

\* DXClusterClient.__init__
DxConstructed ==
    /\ running = FALSE
    /\ thread = NoThread
    /\ connected = FALSE
    /\ readers = <<>>
    /\ caller = NoCall

Subs == {"frequency", "scheduler"}

\* a timer that was started, was not cancelled and has not fired yet
Armed(tm) == tm # NoTimer /\ tm.st = "armed"

\* the number of armed timers
ArmedTimers == (IF Armed(selectionTimer) THEN 1 ELSE 0) + Len(orphans)

\* threading.Timer(interval, function)
NewTimer(interval) == [st |-> "created", interval |-> interval, due |-> 0]

\* threading.Timer.cancel(): no effect once the timer has fired
CancelOf(tm) ==
    IF tm.st = "armed" THEN [st |-> "cancelled", interval |-> 0, due |-> 0]
    ELSE IF tm.st = "created" THEN [tm EXCEPT !.st = "createdCancelled"]
    ELSE tm

\* ServiceScheduler.cancelTimer()
CancelTimer(sel) == IF sel # NoTimer THEN CancelOf(sel) ELSE sel

\* threading.Timer.start() at time t: the timer after the call ("error": it was started before)
StartOf(tm, t) ==
    IF tm.st = "created" THEN [tm EXCEPT !.st = "armed", !.due = t + tm.interval]
    ELSE IF tm.st = "createdCancelled" THEN [st |-> "cancelled", interval |-> 0, due |-> 0]
    ELSE [tm EXCEPT !.st = "error"]

\* the timer once its interval has passed: its thread runs the function
FiredOf(tm) == [st |-> "fired", interval |-> 0, due |-> 0]

RECURSIVE Insert(_, _)
\* the due times dues and d, in ascending order
Insert(dues, d) ==
    IF dues = <<>> THEN <<d>>
    ELSE IF d <= Head(dues) THEN <<d>> \o dues
    ELSE <<Head(dues)>> \o Insert(Tail(dues), d)

\* dues without its i-th element
Remove(dues, i) == SubSeq(dues, 1, i - 1) \o SubSeq(dues, i + 1, Len(dues))

\* the armed timers nothing refers to once self.selectionTimer, which was old, is assigned
Orphaned(old) == IF Armed(old) THEN Insert(orphans, old.due) ELSE orphans

Log(th, c) == calls' = [calls EXCEPT ![th] = Append(@, c)]

\* the thread leaves the code it runs: normally, or with an exception that propagates
Leave(th, e) ==
    /\ pc' = [pc EXCEPT ![th] = "done"]
    /\ exc' = [exc EXCEPT ![th] = e]
    /\ ret' = [ret EXCEPT ![th] = ""]
    /\ entry' = [entry EXCEPT ![th] = NoEntry]
    /\ targ' = [targ EXCEPT ![th] = NoTime]
    /\ secs' = [secs EXCEPT ![th] = 0]
    /\ UNCHANGED sret

Goto(th, l) == pc' = [pc EXCEPT ![th] = l]

\* ServiceScheduler.__init__, wireProperty calling parseSchedule with the initial value
Init ==
    /\ now = 0
    /\ enabled \in BOOLEAN
    /\ failed = FALSE
    /\ users \in BOOLEAN
    /\ props \in PropsSet
    /\ srcProfile = ""
    /\ registered = TRUE
    /\ schedule = IF "scheduler" \in DOMAIN props THEN Parse(props) ELSE NoSchedule
    /\ currentEntry = NoEntry
    /\ selectionTimer = IF "scheduler" \in DOMAIN props /\ enabled
                        THEN StartOf(NewTimer(DefaultDelay), now) ELSE NoTimer
    /\ orphans = <<>>
    /\ subscriptions = <<"frequency", "scheduler">>
    /\ cancels = [s \in Subs |-> 0]
    /\ pc = [th \in Threads |-> IF th = EventThread THEN "idle" ELSE "none"]
    /\ ret = [th \in Threads |-> ""]
    /\ sret = [th \in Threads |-> ""]
    /\ entry = [th \in Threads |-> NoEntry]
    /\ targ = [th \in Threads |-> NoTime]
    /\ secs = [th \in Threads |-> 0]
    /\ calls = [th \in Threads |-> <<>>]
    /\ exc = [th \in Threads |-> ""]
    /\ handler = ""
    /\ harg = ""
    /\ nEvents = 0
    /\ DxConstructed


\* ServiceScheduler.getClientClass()
GetClientClass == IF currentEntry = NoEntry THEN "INACTIVE" ELSE "BACKGROUND"

\* ------------------------------------------------- scheduleSelection(time)
\* return from scheduleSelection() to its caller
SSReturn(th) ==
    IF ret[th] = "done"
    THEN Leave(th, "")
    ELSE /\ pc' = [pc EXCEPT ![th] = ret[th]]
         /\ ret' = [ret EXCEPT ![th] = ""]
         /\ targ' = [targ EXCEPT ![th] = NoTime]
         /\ secs' = [secs EXCEPT ![th] = 0]
         /\ UNCHANGED <<sret, entry, exc>>

\* mutant of SS_Check: the timer is always created for DefaultDelay seconds
SS_CheckNoTime(th) ==
    /\ pc[th] = "ss_check"
    /\ IF ~enabled \/ failed
       THEN SSReturn(th)
       ELSE /\ secs' = [secs EXCEPT ![th] = DefaultDelay]
            /\ Goto(th, "ss_cancel")
            /\ UNCHANGED <<ret, sret, entry, targ, exc>>
    /\ UNCHANGED <<dxVars, now, srcVars, schedVars, calls, handler, harg, nEvents>>

\* if not self.source.isEnabled() or self.source.isFailed(): return; seconds = ...
SS_Check(th) ==
    /\ pc[th] = "ss_check"
    /\ IF ~enabled \/ failed
       THEN SSReturn(th)
       ELSE /\ secs' = [secs EXCEPT ![th] =
                          IF targ[th] = NoTime THEN DefaultDelay ELSE targ[th] - now]
            /\ Goto(th, "ss_cancel")
            /\ UNCHANGED <<ret, sret, entry, targ, exc>>
    /\ UNCHANGED <<dxVars, now, srcVars, schedVars, calls, handler, harg, nEvents>>

\* self.cancelTimer()
SS_Cancel(th) ==
    /\ pc[th] = "ss_cancel"
    /\ selectionTimer' = CancelTimer(selectionTimer)
    /\ Log(th, [op |-> "cancelTimer"])
    /\ Goto(th, "ss_new")
    /\ UNCHANGED <<dxVars, now, srcVars, schedule, currentEntry, orphans, subscriptions,
                   cancels, localVars, exc, handler, harg, nEvents>>

\* self.selectionTimer = threading.Timer(seconds, self.selectProfile)
SS_New(th) ==
    /\ pc[th] = "ss_new"
    /\ Len(Orphaned(selectionTimer)) <= MaxOrphans
    /\ orphans' = Orphaned(selectionTimer)
    /\ selectionTimer' = NewTimer(secs[th])
    /\ Log(th, [op |-> "Timer", interval |-> secs[th]])
    /\ Goto(th, "ss_start")
    /\ UNCHANGED <<dxVars, now, srcVars, schedule, currentEntry, subscriptions, cancels,
                   localVars, exc, handler, harg, nEvents>>

\* self.selectionTimer.start()
SS_Start(th) ==
    /\ pc[th] = "ss_start"
    /\ LET started == StartOf(selectionTimer, now) IN
       IF started.st = "error"
       THEN /\ Leave(th, "RuntimeError")
            /\ Log(th, [op |-> "Timer.start", raised |-> TRUE])
            /\ UNCHANGED selectionTimer
       ELSE /\ selectionTimer' = started
            /\ Log(th, [op |-> "Timer.start", raised |-> FALSE])
            /\ SSReturn(th)
    /\ UNCHANGED <<dxVars, now, srcVars, schedule, currentEntry, orphans, subscriptions,
                   cancels, handler, harg, nEvents>>

\* ------------------------------------------------------- event callbacks
\* the source, or the property store, calls a callback of the scheduler
Deliver(h, arg, l) ==
    /\ pc[EventThread] = "idle"
    /\ nEvents < MaxEvents
    /\ nEvents' = nEvents + 1
    /\ handler' = h
    /\ harg' = arg
    /\ pc' = [pc EXCEPT ![EventThread] = l]
    /\ ret' = [ret EXCEPT ![EventThread] = "done"]
    /\ UNCHANGED <<dxVars, now, schedVars, sret, entry, targ, secs, calls, exc>>

\* the "scheduler" property changes: parseSchedule(*args)
ConfigChange ==
    /\ cancels["scheduler"] = 0
    /\ \E p \in PropsSet \ {props} : props' = p
    /\ Deliver("parseSchedule", "", "parse")
    /\ UNCHANGED <<enabled, failed, users, srcProfile, registered>>

\* center_freq or samp_rate changes: onFrequencyChange(changes)
OnFrequencyChange ==
    /\ cancels["frequency"] = 0
    /\ Deliver("onFrequencyChange", "", "ss_check")
    /\ UNCHANGED srcVars

\* onStateChange(state)
OnStateChange ==
    /\ registered
    /\ \E state \in SdrSourceStates :
         Deliver("onStateChange", state, "state")
    /\ UNCHANGED srcVars

\* onBusyStateChange(state): IDLE when the last interactive client leaves
OnBusyStateChange ==
    /\ registered
    /\ \E state \in SdrBusyStates :
         /\ state = "IDLE" => users
         /\ users' = IF state = "IDLE" THEN FALSE ELSE users
         /\ Deliver("onBusyStateChange", state, "busy")
    /\ UNCHANGED <<enabled, failed, props, srcProfile, registered>>

\* the source is enabled: onEnable()
OnEnable ==
    /\ registered /\ ~enabled
    /\ enabled' = TRUE
    /\ Deliver("onEnable", "", "ss_check")
    /\ UNCHANGED <<failed, users, props, srcProfile, registered>>

\* the source is disabled: onDisable()
OnDisable ==
    /\ registered /\ enabled
    /\ enabled' = FALSE
    /\ Deliver("onDisable", "", "disable")
    /\ UNCHANGED <<failed, users, props, srcProfile, registered>>

\* the source fails: onFail()
OnFail ==
    /\ registered /\ ~failed
    /\ failed' = TRUE
    /\ Deliver("onFail", "", "sd_subs")
    /\ UNCHANGED <<enabled, users, props, srcProfile, registered>>

\* the source shuts down: onShutdown()
OnShutdown ==
    /\ registered
    /\ Deliver("onShutdown", "", "sd_subs")
    /\ UNCHANGED srcVars

\* the owner of the scheduler calls shutdown()
Shutdown ==
    /\ Deliver("shutdown", "", "sd_subs")
    /\ UNCHANGED srcVars

\* the callback returns to the source, or to the property store
Return ==
    /\ pc[EventThread] = "done"
    /\ pc' = [pc EXCEPT ![EventThread] = "idle"]
    /\ calls' = [calls EXCEPT ![EventThread] = <<>>]
    /\ exc' = [exc EXCEPT ![EventThread] = ""]
    /\ handler' = ""
    /\ harg' = ""
    /\ UNCHANGED <<dxVars, now, srcVars, schedVars, localVars, nEvents>>

\* mutant of OSC_Check: every state change calls scheduleSelection()
OSC_Always ==
    /\ pc[EventThread] = "state"
    /\ Goto(EventThread, "ss_check") /\ UNCHANGED <<localVars, exc>>
    /\ UNCHANGED <<dxVars, now, srcVars, schedVars, calls, handler, harg, nEvents>>

\* onStateChange: if state is SdrSourceState.STOPPING: self.scheduleSelection()
OSC_Check ==
    /\ pc[EventThread] = "state"
    /\ IF harg = "STOPPING"
       THEN Goto(EventThread, "ss_check") /\ UNCHANGED <<localVars, exc>>
       ELSE Leave(EventThread, "")
    /\ UNCHANGED <<dxVars, now, srcVars, schedVars, calls, handler, harg, nEvents>>

\* onBusyStateChange: if state is SdrBusyState.IDLE: self.scheduleSelection()
OBSC_Check ==
    /\ pc[EventThread] = "busy"
    /\ IF harg = "IDLE"
       THEN Goto(EventThread, "ss_check") /\ UNCHANGED <<localVars, exc>>
       ELSE Leave(EventThread, "")
    /\ UNCHANGED <<dxVars, now, srcVars, schedVars, calls, handler, harg, nEvents>>

\* parseSchedule: self.schedule = Schedule.parse(props), then scheduleSelection(); the log
\* keeps the entry that a selectProfile() run in progress holds from the schedule replaced
PS_Parse ==
    /\ pc[EventThread] = "parse"
    /\ schedule' = Parse(props)
    /\ Log(EventThread, [op |-> "parse", pending |-> entry[TimerThread]])
    /\ Goto(EventThread, "ss_check")
    /\ UNCHANGED <<dxVars, now, srcVars, currentEntry, selectionTimer, orphans, subscriptions,
                   cancels, localVars, exc, handler, harg, nEvents>>

\* mutant of OD_Cancel: onDisable returns without cancelling the timer
OD_NoCancel ==
    /\ pc[EventThread] = "disable"
    /\ Leave(EventThread, "")
    /\ UNCHANGED <<dxVars, now, srcVars, schedVars, calls, handler, harg, nEvents>>

\* onDisable: self.cancelTimer()
OD_Cancel ==
    /\ pc[EventThread] = "disable"
    /\ selectionTimer' = CancelTimer(selectionTimer)
    /\ Log(EventThread, [op |-> "cancelTimer"])
    /\ Leave(EventThread, "")
    /\ UNCHANGED <<dxVars, now, srcVars, schedule, currentEntry, orphans, subscriptions,
                   cancels, handler, harg, nEvents>>

\* mutant of SD_Subs: every subscription is cancelled and stays in self.subscriptions
SD_SubsKept ==
    /\ pc[EventThread] = "sd_subs"
    /\ cancels' = [s \in Subs |->
                     IF \E i \in 1 .. Len(subscriptions) : subscriptions[i] = s
                     THEN cancels[s] + 1 ELSE cancels[s]]
    /\ Goto(EventThread, "sd_cancel")
    /\ UNCHANGED <<dxVars, now, srcVars, schedule, currentEntry, selectionTimer, orphans,
                   subscriptions, localVars, calls, exc, handler, harg, nEvents>>

\* shutdown: while self.subscriptions: self.subscriptions.pop().cancel()
SD_Subs ==
    /\ pc[EventThread] = "sd_subs"
    /\ IF subscriptions # <<>>
       THEN LET s == subscriptions[Len(subscriptions)] IN
            /\ subscriptions' = SubSeq(subscriptions, 1, Len(subscriptions) - 1)
            /\ cancels' = [cancels EXCEPT ![s] = @ + 1]
            /\ Log(EventThread, [op |-> "cancel", sub |-> s])
            /\ UNCHANGED pc
       ELSE /\ Goto(EventThread, "sd_cancel")
            /\ UNCHANGED <<subscriptions, cancels, calls>>
    /\ UNCHANGED <<dxVars, now, srcVars, schedule, currentEntry, selectionTimer, orphans,
                   localVars, exc, handler, harg, nEvents>>

\* shutdown: self.cancelTimer()
SD_Cancel ==
    /\ pc[EventThread] = "sd_cancel"
    /\ selectionTimer' = CancelTimer(selectionTimer)
    /\ Log(EventThread, [op |-> "cancelTimer"])
    /\ Goto(EventThread, "sd_remove")
    /\ UNCHANGED <<dxVars, now, srcVars, schedule, currentEntry, orphans, subscriptions,
                   cancels, localVars, exc, handler, harg, nEvents>>

\* shutdown: self.source.removeClient(self)
SD_Remove ==
    /\ pc[EventThread] = "sd_remove"
    /\ registered' = FALSE
    /\ Log(EventThread, [op |-> "removeClient"])
    /\ Leave(EventThread, "")
    /\ UNCHANGED <<dxVars, now, enabled, failed, users, props, srcProfile,
                   schedVars, handler, harg, nEvents>>


\* ------------------------------------------------------------ timer thread
\* no selectProfile() run is in progress
Idle(th) == pc[th] = "none"

\* threading.Timer.run(): the interval of self.selectionTimer has passed and the timer
\* was not cancelled
Fire(th) ==
    /\ Idle(th)
    /\ Armed(selectionTimer)
    /\ now >= selectionTimer.due
    /\ selectionTimer' = FiredOf(selectionTimer)
    /\ Goto(th, "sp_user")
    /\ UNCHANGED <<dxVars, now, srcVars, schedule, currentEntry, orphans, subscriptions,
                   cancels, localVars, calls, exc, handler, harg, nEvents>>

\* threading.Timer.run(): the interval of a timer nothing refers to has passed
FireOrphan(th) ==
    /\ Idle(th)
    /\ \E i \in 1 .. Len(orphans) :
         /\ now >= orphans[i]
         /\ orphans' = Remove(orphans, i)
    /\ Goto(th, "sp_user")
    /\ UNCHANGED <<dxVars, now, srcVars, schedule, currentEntry, selectionTimer, subscriptions,
                   cancels, localVars, calls, exc, handler, harg, nEvents>>

\* threading.Timer.run(): self.finished.set() after the function returned; the thread
\* ends (also when the function raised)
Exit(th) ==
    /\ th \in Timers
    /\ pc[th] = "done"
    /\ pc' = [pc EXCEPT ![th] = "none"]
    /\ calls' = [calls EXCEPT ![th] = <<>>]
    /\ exc' = [exc EXCEPT ![th] = ""]
    /\ sret' = [sret EXCEPT ![th] = ""]
    /\ UNCHANGED <<dxVars, now, srcVars, schedVars, ret, entry, targ, secs, handler, harg,
                   nEvents>>

\* mutant of SP_User: selectProfile without the check for interactive clients
SP_UserUnchecked(th) ==
    /\ pc[th] = "sp_user"
    /\ Goto(th, "sp_sched")
    /\ UNCHANGED <<dxVars, now, srcVars, schedVars, localVars, calls, exc, handler, harg,
                   nEvents>>

\* selectProfile: if self.source.hasClients(SdrClientClass.USER): return
SP_User(th) ==
    /\ pc[th] = "sp_user"
    /\ IF users
       THEN Leave(th, "")
       ELSE Goto(th, "sp_sched") /\ UNCHANGED <<localVars, exc>>
    /\ UNCHANGED <<dxVars, now, srcVars, schedVars, calls, handler, harg, nEvents>>

\* selectProfile: if self.schedule is None: self._setCurrentEntry(None); return
SP_Sched(th) ==
    /\ pc[th] = "sp_sched"
    /\ IF schedule = NoSchedule
       THEN /\ Goto(th, "sce_set")
            /\ sret' = [sret EXCEPT ![th] = "done"]
       ELSE /\ Goto(th, "sp_query")
            /\ UNCHANGED sret
    /\ UNCHANGED <<dxVars, now, srcVars, schedVars, ret, entry, targ, secs, calls, exc,
                   handler, harg, nEvents>>

\* selectProfile: self._setCurrentEntry(self.schedule.getCurrentEntry()), the argument
SP_Query(th) ==
    /\ pc[th] = "sp_query"
    /\ IF schedule = NoSchedule
       THEN /\ Leave(th, "AttributeError")
            /\ UNCHANGED <<schedule, calls>>
       ELSE \E q \in QueryOutcomes(schedule, now, TRUE) :
              IF q.raised # ""
              THEN /\ Leave(th, q.raised)
                   /\ Log(th, [op |-> "getCurrentEntry", raised |-> q.raised])
                   /\ UNCHANGED schedule
              ELSE /\ entry' = [entry EXCEPT ![th] = q.entry]
                   /\ schedule' = AfterGetCurrentEntry(schedule, now)
                   /\ sret' = [sret EXCEPT ![th] = "sp_after"]
                   /\ Goto(th, "sce_set")
                   /\ UNCHANGED <<ret, targ, secs, exc, calls>>
    /\ UNCHANGED <<dxVars, now, srcVars, currentEntry, selectionTimer, orphans, subscriptions,
                   cancels, handler, harg, nEvents>>

\* mutant of SCE_Set: self.currentEntry is assigned only when there is an entry
SCE_SetKeep(th) ==
    /\ pc[th] = "sce_set"
    /\ currentEntry' = IF entry[th] # NoEntry THEN entry[th] ELSE currentEntry
    /\ IF entry[th] # NoEntry
       THEN /\ targ' = [targ EXCEPT ![th] = GetScheduledEnd(entry[th], now)]
            /\ ret' = [ret EXCEPT ![th] = "sce_activate"]
            /\ Goto(th, "ss_check")
       ELSE /\ Goto(th, "sce_status")
            /\ UNCHANGED <<targ, ret>>
    /\ Log(th, [op |-> "currentEntry", entry |-> entry[th]])
    /\ UNCHANGED <<dxVars, now, srcVars, schedule, selectionTimer, orphans, subscriptions,
                   cancels,
                   sret, entry, secs, exc, handler, harg, nEvents>>

\* _setCurrentEntry: self.currentEntry = entry;
\* if entry is not None: self.scheduleSelection(entry.getScheduledEnd())
SCE_Set(th) ==
    /\ pc[th] = "sce_set"
    /\ currentEntry' = entry[th]
    /\ IF entry[th] # NoEntry
       THEN /\ targ' = [targ EXCEPT ![th] = GetScheduledEnd(entry[th], now)]
            /\ ret' = [ret EXCEPT ![th] = "sce_activate"]
            /\ Goto(th, "ss_check")
       ELSE /\ Goto(th, "sce_status")
            /\ UNCHANGED <<targ, ret>>
    /\ Log(th, [op |-> "currentEntry", entry |-> entry[th]])
    /\ UNCHANGED <<dxVars, now, srcVars, schedule, selectionTimer, orphans, subscriptions,
                   cancels,
                   sret, entry, secs, exc, handler, harg, nEvents>>

\* what source.activateProfile(profile) does: KeyError for an unknown profile id
ActivateOutcomes(profile) ==
    (IF profile \in SrcProfiles THEN {"ok"} ELSE {"KeyError"}) \cup {"Exception"}

\* mutant of SCE_Activate: _setCurrentEntry without the self.source.start() call
SCE_ActivateNoStart(th) ==
    /\ pc[th] = "sce_activate"
    /\ \E outcome \in ActivateOutcomes(entry[th].profile) :
         /\ Log(th, [op |-> "activateProfile", profile |-> entry[th].profile,
                     outcome |-> outcome, users |-> users])
         /\ srcProfile' = IF outcome = "ok" THEN entry[th].profile ELSE srcProfile
         /\ IF outcome \in {"ok", "KeyError"}
            THEN Goto(th, "sce_status") /\ UNCHANGED <<localVars, exc>>
            ELSE Leave(th, outcome)
    /\ UNCHANGED <<dxVars, now, enabled, failed, users, props, registered, schedVars,
                   handler, harg, nEvents>>

\* _setCurrentEntry: try: self.source.activateProfile(entry.getProfile()) except KeyError: pass
SCE_Activate(th) ==
    /\ pc[th] = "sce_activate"
    /\ \E outcome \in ActivateOutcomes(entry[th].profile) :
         /\ Log(th, [op |-> "activateProfile", profile |-> entry[th].profile,
                     outcome |-> outcome, users |-> users])
         /\ srcProfile' = IF outcome = "ok" THEN entry[th].profile ELSE srcProfile
         /\ IF outcome = "ok" THEN Goto(th, "sce_start") /\ UNCHANGED <<localVars, exc>>
            ELSE IF outcome = "KeyError"
            THEN Goto(th, "sce_status") /\ UNCHANGED <<localVars, exc>>
            ELSE Leave(th, outcome)
    /\ UNCHANGED <<dxVars, now, enabled, failed, users, props, registered, schedVars,
                   handler, harg, nEvents>>

\* what source.start() does
StartOutcomes == {"ok", "Exception"}

\* _setCurrentEntry: self.source.start(), inside the try
SCE_Start(th) ==
    /\ pc[th] = "sce_start"
    /\ \E outcome \in StartOutcomes :
         /\ Log(th, [op |-> "start", outcome |-> outcome, users |-> users])
         /\ IF outcome = "ok"
            THEN Goto(th, "sce_status") /\ UNCHANGED <<localVars, exc>>
            ELSE Leave(th, outcome)
    /\ UNCHANGED <<dxVars, now, srcVars, schedVars, handler, harg, nEvents>>

\* _setCurrentEntry: self.source.checkStatus(), then return to selectProfile
SCE_Status(th) ==
    /\ pc[th] = "sce_status"
    /\ Log(th, [op |-> "checkStatus"])
    /\ IF sret[th] = "done"
       THEN Leave(th, "")
       ELSE /\ Goto(th, sret[th])
            /\ sret' = [sret EXCEPT ![th] = ""]
            /\ entry' = [entry EXCEPT ![th] = NoEntry]
            /\ UNCHANGED <<ret, targ, secs, exc>>
    /\ UNCHANGED <<dxVars, now, srcVars, schedVars, handler, harg, nEvents>>

\* selectProfile: if self.currentEntry is None: ... else fall off the end
SP_After(th) ==
    /\ pc[th] = "sp_after"
    /\ IF currentEntry = NoEntry
       THEN Goto(th, "sp_next") /\ UNCHANGED <<localVars, exc>>
       ELSE Leave(th, "")
    /\ UNCHANGED <<dxVars, now, srcVars, schedVars, calls, handler, harg, nEvents>>

\* selectProfile: nextEntry = self.schedule.getNextEntry();
\* if nextEntry is not None: self.scheduleSelection(nextEntry.getNextActivation())
SP_Next(th) ==
    /\ pc[th] = "sp_next"
    /\ IF schedule = NoSchedule
       THEN Leave(th, "AttributeError") /\ UNCHANGED calls
       ELSE \E q \in QueryOutcomes(schedule, now, FALSE) :
              IF q.raised # ""
              THEN /\ Leave(th, q.raised)
                   /\ Log(th, [op |-> "getNextEntry", raised |-> q.raised])
              ELSE /\ IF q.entry # NoEntry
                      THEN /\ targ' = [targ EXCEPT ![th] = GetNextActivation(q.entry, now)]
                           /\ ret' = [ret EXCEPT ![th] = "done"]
                           /\ Goto(th, "ss_check")
                           /\ UNCHANGED <<sret, entry, secs, exc>>
                      ELSE Leave(th, "")
                   /\ UNCHANGED calls
    /\ UNCHANGED <<dxVars, now, srcVars, schedVars, handler, harg, nEvents>>

\* ------------------------------------------------------------ environment
\* time passes, between the runs: the steps of a run take no time
Tick ==
    /\ pc[EventThread] = "idle" /\ pc[TimerThread] = "none"
    /\ \E t \in Instants : t > now /\ now' = t
    /\ UNCHANGED <<dxVars, srcVars, schedVars, pc, localVars, calls, exc, handler, harg,
                   nEvents>>

\* an interactive client connects to the source
UserConnect ==
    /\ ~users
    /\ users' = TRUE
    /\ UNCHANGED <<dxVars, now, enabled, failed, props, srcProfile, registered,
                   schedVars, pc, localVars, calls, exc, handler, harg, nEvents>>

Events ==
    \/ ConfigChange
    \/ OnFrequencyChange
    \/ OnStateChange
    \/ OnBusyStateChange
    \/ OnEnable
    \/ OnDisable
    \/ OnFail
    \/ OnShutdown
    \/ Shutdown

ScheduleSelection(th) ==
    \/ SS_Check(th)
    \/ SS_Cancel(th)
    \/ SS_New(th)
    \/ SS_Start(th)

EventSteps ==
    \/ Return
    \/ OSC_Check
    \/ OBSC_Check
    \/ PS_Parse
    \/ OD_Cancel
    \/ SD_Subs
    \/ SD_Cancel
    \/ SD_Remove

SelectProfile(th) ==
    \/ SP_User(th)
    \/ SP_Sched(th)
    \/ SP_Query(th)
    \/ SCE_Set(th)
    \/ SCE_Activate(th)
    \/ SCE_Start(th)
    \/ SCE_Status(th)
    \/ SP_After(th)
    \/ SP_Next(th)
    \/ Exit(th)

Next ==
    \/ Events
    \/ EventSteps
    \/ \E th \in Threads : ScheduleSelection(th)
    \/ Fire(TimerThread)
    \/ FireOrphan(TimerThread)
    \/ SelectProfile(TimerThread)
    \/ Tick
    \/ UserConnect

\* the timer callbacks concurrent with the event callbacks
Spec == Init /\ [][Next]_vars

\* one run at a time: a callback is delivered, and a timer fires, only when no other
\* run is in progress
SeqNext ==
    \/ pc[TimerThread] = "none" /\ Events
    \/ EventSteps
    \/ \E th \in Threads : ScheduleSelection(th)
    \/ pc[EventThread] = "idle" /\ Fire(TimerThread)
    \/ SelectProfile(TimerThread)
    \/ Tick
    \/ UserConnect

\* the serialized executions of the scheduler
SeqSpec == Init /\ [][SeqNext]_vars

\* the serialized executions in which time passes, a timer whose interval has passed runs
\* its function, and a thread that runs goes on to the end of its run
SeqFairSpec ==
    /\ SeqSpec
    /\ WF_vars(Tick)
    /\ WF_vars(pc[EventThread] = "idle" /\ Fire(TimerThread))
    /\ WF_vars(EventSteps)
    /\ WF_vars(\E th \in Threads : ScheduleSelection(th))
    /\ WF_vars(SelectProfile(TimerThread))


\* --------------------------------------------- a rotation schedule by itself
\* number of getCurrentEntry()/getNextEntry() calls made on the schedule in one behaviour
MaxCalls == 3

\* the "scheduler" property of a rotation among profiles, every minute
RotationConfig(profiles) ==
    [type |-> "rotation", schedule |-> [profiles |-> profiles, interval |-> 1]]

RotationProps ==
    {WithScheduler(RotationConfig(ps)) : ps \in {<<"a">>, <<"a", "b">>, <<"a", "b", "c">>}}

\* a RotationSchedule parsed from the property, no call made on it yet; no scheduler runs
RotInit ==
    /\ now = 0
    /\ enabled = FALSE
    /\ failed = FALSE
    /\ users = FALSE
    /\ props \in RotationProps
    /\ srcProfile = ""
    /\ registered = FALSE
    /\ schedule = Parse(props)
    /\ currentEntry = NoEntry
    /\ selectionTimer = NoTimer
    /\ orphans = <<>>
    /\ subscriptions = <<>>
    /\ cancels = [s \in Subs |-> 0]
    /\ pc = [th \in Threads |-> IF th = EventThread THEN "idle" ELSE "none"]
    /\ ret = [th \in Threads |-> ""]
    /\ sret = [th \in Threads |-> ""]
    /\ entry = [th \in Threads |-> NoEntry]
    /\ targ = [th \in Threads |-> NoTime]
    /\ secs = [th \in Threads |-> 0]
    /\ calls = [th \in Threads |-> <<>>]
    /\ exc = [th \in Threads |-> ""]
    /\ handler = ""
    /\ harg = ""
    /\ nEvents = 0
    /\ DxConstructed

\* a call of a method of the schedule: the log keeps the instant, the schedule object
\* before the call and what the call returned
ScheduleCall(op, returned) ==
    /\ Len(calls[EventThread]) < MaxCalls
    /\ Log(EventThread, [op |-> op, at |-> now, before |-> schedule, returned |-> returned])
    /\ UNCHANGED <<dxVars, now, srcVars, currentEntry, selectionTimer, orphans, subscriptions,
                   cancels, pc, localVars, exc, handler, harg, nEvents>>

\* mutant of RotGetNextEntry: getNextEntry() moves the cursor to the profile it returns
RotGetNextEntryAdvancing ==
    /\ ScheduleCall("getNextEntry", GetNextEntry(schedule, now))
    /\ schedule' = [schedule EXCEPT
                      !.current_index = (schedule.current_index + 1) % Len(schedule.profiles)]

\* schedule.getCurrentEntry()
RotGetCurrentEntry ==
    /\ ScheduleCall("getCurrentEntry", GetCurrentEntry(schedule, now))
    /\ schedule' = AfterGetCurrentEntry(schedule, now)

\* schedule.getNextEntry()
RotGetNextEntry ==
    /\ ScheduleCall("getNextEntry", GetNextEntry(schedule, now))
    /\ UNCHANGED schedule

RotNext ==
    \/ RotGetCurrentEntry
    \/ RotGetNextEntry
    \/ Tick

\* the calls on a rotation schedule, at any instants
RotationSpec == RotInit /\ [][RotNext]_vars


\* ------------------------------------------------ a static schedule by itself
Key2300_0100 == <<"2", "3", "0", "0", "-", "0", "1", "0", "0">>
Key0600_1800 == <<"0", "6", "0", "0", "-", "1", "8", "0", "0">>
\* a key that is not 9 characters long
Key600_1800 == <<"6", "0", "0", "-", "1", "8", "0", "0">>

\* the "schedule" dictionaries explored, as the sequence of their items
StaticDicts ==
    { <<>>,
      << <<Key600_1800, "a">> >>,
      << <<Key0600_1800, "a">> >>,
      << <<Key2300_0100, "b">> >>,
      << <<Key0600_1800, "a">>, <<Key2300_0100, "b">> >>,
      << <<Key2300_0100, "b">>, <<Key600_1800, "c">>, <<Key0600_1800, "a">> >> }

StaticProps == {WithScheduler([type |-> "static", schedule |-> d]) : d \in StaticDicts}

\* the instants at which the calls are made: 00:30, 01:00, 05:59, 06:00, 07:00, 18:00, 22:59,
\* 23:00, 23:30 of the first day, 00:30 and 01:00 of the second
ClockInstants ==
    {1800, 3600, 21540, 21600, 25200, 64800, 82740, 82800, 84600, 88200, 90000}

\* a StaticSchedule parsed from the property, at some instant; no scheduler runs
StaticInit ==
    /\ now \in ClockInstants
    /\ enabled = FALSE
    /\ failed = FALSE
    /\ users = FALSE
    /\ props \in StaticProps
    /\ srcProfile = ""
    /\ registered = FALSE
    /\ schedule = Parse(props)
    /\ currentEntry = NoEntry
    /\ selectionTimer = NoTimer
    /\ orphans = <<>>
    /\ subscriptions = <<>>
    /\ cancels = [s \in Subs |-> 0]
    /\ pc = [th \in Threads |-> IF th = EventThread THEN "idle" ELSE "none"]
    /\ ret = [th \in Threads |-> ""]
    /\ sret = [th \in Threads |-> ""]
    /\ entry = [th \in Threads |-> NoEntry]
    /\ targ = [th \in Threads |-> NoTime]
    /\ secs = [th \in Threads |-> 0]
    /\ calls = [th \in Threads |-> <<>>]
    /\ exc = [th \in Threads |-> ""]
    /\ handler = ""
    /\ harg = ""
    /\ nEvents = 0
    /\ DxConstructed

\* schedule.getCurrentEntry() of a static schedule
StaticGetCurrentEntry ==
    /\ ScheduleCall("getCurrentEntry", GetCurrentEntry(schedule, now))
    /\ schedule' = AfterGetCurrentEntry(schedule, now)

\* schedule.getNextEntry() of a static schedule
StaticGetNextEntry ==
    /\ ScheduleCall("getNextEntry", GetNextEntry(schedule, now))
    /\ UNCHANGED schedule

\* e.isCurrent(datetime.utcnow()) and e.getScheduledEnd() of an entry e of the schedule
EntryGetScheduledEnd ==
    /\ Len(calls[EventThread]) < MaxCalls
    /\ \E i \in 1 .. Len(schedule.entries) :
         LET e == schedule.entries[i] IN
         Log(EventThread, [op |-> "getScheduledEnd", at |-> now, before |-> e,
                           current |-> IsCurrent(e, now),
                           returned |-> GetScheduledEnd(e, now)])
    /\ UNCHANGED <<dxVars, now, srcVars, schedVars, pc, localVars, exc, handler, harg,
                   nEvents>>

StaticNext ==
    \/ StaticGetCurrentEntry
    \/ StaticGetNextEntry
    \/ EntryGetScheduledEnd

\* the calls on a static schedule and on its entries, at any of the instants
StaticSpec == StaticInit /\ [][StaticNext]_vars



\* ------------------------------------------------- a daylight schedule on its own
\* the "schedule" dictionaries of a daylight schedule that are explored
DaylightDicts ==
    { [night |-> "n"], [day |-> "d"], [night |-> "n", day |-> "d"],
      [greyline |-> "g"], [night |-> "n", greyline |-> "g"],
      [night |-> "n", day |-> "d", greyline |-> "g"] }

DaylightProps == {WithScheduler([type |-> "daylight", schedule |-> d]) : d \in DaylightDicts}

\* what getSunTimes(date) gives at three positions, as offsets from the midnight of the
\* date: sunrise 06:00 and sunset 18:00 (longitude 0), sunrise 17:20 and sunset 05:20 of
\* the day after (longitude -170), sunrise 18:40 of the day before and sunset 06:40
\* (longitude 170)
SunTimes ==
    { [ok |-> TRUE, sunrise |-> 21600, sunset |-> 64800],
      [ok |-> TRUE, sunrise |-> 62400, sunset |-> 105600],
      [ok |-> TRUE, sunrise |-> -19200, sunset |-> 24000] }

\* the instants at which the calls are made: 03:00, 05:30, 06:00, 07:00, 12:00, 18:00,
\* 19:00 and 22:00 of the second day
DayInstants == {97200, 106200, 108000, 111600, 129600, 151200, 154800, 165600}

\* a DaylightSchedule parsed from the property, at some instant; no scheduler runs
DayInit ==
    /\ now \in DayInstants
    /\ enabled = FALSE
    /\ failed = FALSE
    /\ users = FALSE
    /\ props \in DaylightProps
    /\ srcProfile = ""
    /\ registered = FALSE
    /\ schedule = Parse(props)
    /\ currentEntry = NoEntry
    /\ selectionTimer = NoTimer
    /\ orphans = <<>>
    /\ subscriptions = <<>>
    /\ cancels = [s \in Subs |-> 0]
    /\ pc = [th \in Threads |-> IF th = EventThread THEN "idle" ELSE "none"]
    /\ ret = [th \in Threads |-> ""]
    /\ sret = [th \in Threads |-> ""]
    /\ entry = [th \in Threads |-> NoEntry]
    /\ targ = [th \in Threads |-> NoTime]
    /\ secs = [th \in Threads |-> 0]
    /\ calls = [th \in Threads |-> <<>>]
    /\ exc = [th \in Threads |-> ""]
    /\ handler = ""
    /\ harg = ""
    /\ nEvents = 0
    /\ DxConstructed

\* a call of a method of the daylight schedule: the log keeps the instant, what
\* getSunTimes() gave and what the call returned
DaylightCall(op, sun, returned) ==
    /\ Len(calls[EventThread]) < MaxCalls
    /\ Log(EventThread, [op |-> op, at |-> now, sun |-> sun, returned |-> returned])
    /\ UNCHANGED <<dxVars, now, srcVars, schedVars, pc, localVars, exc, handler, harg,
                   nEvents>>

\* schedule.getEntries()
DayGetEntries ==
    \E sun \in SunTimes : DaylightCall("getEntries", sun, DaylightEntries(schedule, sun, now))

\* schedule.getCurrentEntry()
DayGetCurrentEntry ==
    \E sun \in SunTimes :
        DaylightCall("getCurrentEntry", sun, DaylightOutcome(schedule, sun, now, TRUE).entry)

\* schedule.getNextEntry()
DayGetNextEntry ==
    \E sun \in SunTimes :
        DaylightCall("getNextEntry", sun, DaylightOutcome(schedule, sun, now, FALSE).entry)

DayNext ==
    \/ DayGetEntries
    \/ DayGetCurrentEntry
    \/ DayGetNextEntry

\* the calls on a daylight schedule, at any of the instants and positions
DaylightSpec == DayInit /\ [][DayNext]_vars

\* ------------------------------------- the scheduler with every kind of schedule
\* values of the "scheduler" property: a type that is none of the three, a daylight
\* schedule, a schedule without a type
UnknownConfig == [type |-> "bogus", schedule |-> <<>>]
DaylightConfig == [type |-> "daylight", schedule |-> [night |-> "a"]]
UntypedConfig == [schedule |-> << <<Key0000_0001, "a">> >>]

\* properties with a top-level "schedule" key and no "scheduler"
LegacyProps == [center_freq |-> 1, samp_rate |-> 1, schedule |-> << <<Key0000_0001, "a">> >>]

QueryProps ==
    {BaseProps, LegacyProps}
        \cup {WithScheduler(sc) : sc \in {StaticConfig, UntypedConfig, EmptyConfig,
                                          RotationConfig(<<"a", "b">>), DaylightConfig,
                                          UnknownConfig}}

\* ServiceScheduler.__init__ on an enabled source with any of these properties
QueryInit ==
    /\ now = 0
    /\ enabled = TRUE
    /\ failed = FALSE
    /\ users \in BOOLEAN
    /\ props \in QueryProps
    /\ srcProfile = ""
    /\ registered = TRUE
    /\ schedule = IF "scheduler" \in DOMAIN props THEN Parse(props) ELSE NoSchedule
    /\ currentEntry = NoEntry
    /\ selectionTimer = IF "scheduler" \in DOMAIN props
                        THEN StartOf(NewTimer(DefaultDelay), now) ELSE NoTimer
    /\ orphans = <<>>
    /\ subscriptions = <<"frequency", "scheduler">>
    /\ cancels = [s \in Subs |-> 0]
    /\ pc = [th \in Threads |-> IF th = EventThread THEN "idle" ELSE "none"]
    /\ ret = [th \in Threads |-> ""]
    /\ sret = [th \in Threads |-> ""]
    /\ entry = [th \in Threads |-> NoEntry]
    /\ targ = [th \in Threads |-> NoTime]
    /\ secs = [th \in Threads |-> 0]
    /\ calls = [th \in Threads |-> <<>>]
    /\ exc = [th \in Threads |-> ""]
    /\ handler = ""
    /\ harg = ""
    /\ nEvents = 0
    /\ DxConstructed

\* the properties change to another of these: parseSchedule(*args)
QueryConfigChange ==
    /\ cancels["scheduler"] = 0
    /\ \E p \in QueryProps \ {props} : props' = p
    /\ Deliver("parseSchedule", "", "parse")
    /\ UNCHANGED <<enabled, failed, users, srcProfile, registered>>

QueryNext ==
    \/ pc[TimerThread] = "none" /\ QueryConfigChange
    \/ Return
    \/ PS_Parse
    \/ \E th \in Threads : ScheduleSelection(th)
    \/ pc[EventThread] = "idle" /\ Fire(TimerThread)
    \/ SelectProfile(TimerThread)
    \/ Tick
    \/ UserConnect

\* the serialized executions of the scheduler whose schedule is reconfigured
QuerySpec == QueryInit /\ [][QueryNext]_vars


\* ------------------------------------------------------- the DX cluster client
\* the scheduler takes no part: its variables stay as constructed
DxInit ==
    /\ now = 0
    /\ enabled = FALSE
    /\ failed = FALSE
    /\ users = FALSE
    /\ props = BaseProps
    /\ srcProfile = ""
    /\ registered = FALSE
    /\ schedule = NoSchedule
    /\ currentEntry = NoEntry
    /\ selectionTimer = NoTimer
    /\ orphans = <<>>
    /\ subscriptions = <<>>
    /\ cancels = [s \in Subs |-> 0]
    /\ pc = [th \in Threads |-> IF th = EventThread THEN "idle" ELSE "none"]
    /\ ret = [th \in Threads |-> ""]
    /\ sret = [th \in Threads |-> ""]
    /\ entry = [th \in Threads |-> NoEntry]
    /\ targ = [th \in Threads |-> NoTime]
    /\ secs = [th \in Threads |-> 0]
    /\ calls = [th \in Threads |-> <<>>]
    /\ exc = [th \in Threads |-> ""]
    /\ handler = ""
    /\ harg = ""
    /\ nEvents = 0
    /\ DxConstructed

\* threading.Thread.is_alive()
IsAlive(r) == readers[r] # "ended"

\* the places where a reader waits longer than the 5 seconds of stop()'s join: connect
\* and login (timeout 30 s), recv (timeout 60 s), the reconnect delay (5 s to 300 s)
Blocking == {"connect", "recv", "sleep"}

\* the reader r moves to l
ReaderGoto(r, l) == readers' = [readers EXCEPT ![r] = l]

\* _reader_thread: while self.running (the outer loop)
R_Loop(r) ==
    /\ readers[r] = "loop"
    /\ ReaderGoto(r, IF running THEN "connect" ELSE "ended")
    /\ UNCHANGED <<svcVars, running, thread, connected, caller>>

\* _reader_thread: connect, login, login script; self.connected = True, or an exception
R_Connect(r) ==
    /\ readers[r] = "connect"
    /\ \/ connected' = TRUE /\ ReaderGoto(r, "read")
       \/ UNCHANGED connected /\ ReaderGoto(r, "finally")
    /\ UNCHANGED <<svcVars, running, thread, caller>>

\* _reader_thread: while self.running (the read loop)
R_Read(r) ==
    /\ readers[r] = "read"
    /\ ReaderGoto(r, IF running THEN "recv" ELSE "finally")
    /\ UNCHANGED <<svcVars, running, thread, connected, caller>>

\* _reader_thread: data = sock.recv(4096): data or socket.timeout (the loop goes on), or
\* the connection closed by the server or an error (the loop is left)
R_Recv(r) ==
    /\ readers[r] = "recv"
    /\ \E l \in {"read", "finally"} : ReaderGoto(r, l)
    /\ UNCHANGED <<svcVars, running, thread, connected, caller>>

\* _reader_thread: finally: self.connected = False
R_Finally(r) ==
    /\ readers[r] = "finally"
    /\ connected' = FALSE
    /\ ReaderGoto(r, "backoff")
    /\ UNCHANGED <<svcVars, running, thread, caller>>

\* _reader_thread: if self.running: time.sleep(reconnect_delay)
R_Backoff(r) ==
    /\ readers[r] = "backoff"
    /\ ReaderGoto(r, IF running THEN "sleep" ELSE "loop")
    /\ UNCHANGED <<svcVars, running, thread, connected, caller>>

\* _reader_thread: the reconnect delay is over
R_Sleep(r) ==
    /\ readers[r] = "sleep"
    /\ ReaderGoto(r, "loop")
    /\ UNCHANGED <<svcVars, running, thread, connected, caller>>

Reader(r) ==
    \/ R_Loop(r)
    \/ R_Connect(r)
    \/ R_Read(r)
    \/ R_Recv(r)
    \/ R_Finally(r)
    \/ R_Backoff(r)
    \/ R_Sleep(r)

\* start(host, port, callsign, login_script) is called: it begins with self.stop()
CallStart ==
    /\ caller = NoCall
    /\ Len(readers) < MaxStarts
    /\ caller' = [pc |-> "stop_run", op |-> "start"]
    /\ UNCHANGED <<svcVars, running, thread, connected, readers>>

\* stop() is called
CallStop ==
    /\ caller = NoCall
    /\ caller' = [pc |-> "stop_run", op |-> "stop"]
    /\ UNCHANGED <<svcVars, running, thread, connected, readers>>

\* stop: self.running = False
Stop_Run ==
    /\ caller.pc = "stop_run"
    /\ running' = FALSE
    /\ caller' = [caller EXCEPT !.pc = "stop_join"]
    /\ UNCHANGED <<svcVars, thread, connected, readers>>

\* stop: if self.thread and self.thread.is_alive(): self.thread.join(timeout=5); the join
\* returns when the reader has ended, or after 5 seconds with the reader still waiting
Stop_Join ==
    /\ caller.pc = "stop_join"
    /\ thread # NoThread /\ IsAlive(thread) => readers[thread] \in Blocking
    /\ caller' = [caller EXCEPT !.pc = "stop_clear"]
    /\ UNCHANGED <<svcVars, running, thread, connected, readers>>

\* stop: self.thread = None; self.connected = False; return (into start(), or to the caller)
Stop_Clear ==
    /\ caller.pc = "stop_clear"
    /\ thread' = NoThread
    /\ connected' = FALSE
    /\ caller' = IF caller.op = "start" THEN [caller EXCEPT !.pc = "start_run"] ELSE NoCall
    /\ UNCHANGED <<svcVars, running, readers>>

\* start: the connection parameters are saved; self.running = True
Start_Run ==
    /\ caller.pc = "start_run"
    /\ running' = TRUE
    /\ caller' = [caller EXCEPT !.pc = "start_thread"]
    /\ UNCHANGED <<svcVars, thread, connected, readers>>

\* start: self.thread = threading.Thread(target=self._reader_thread, ...);
\* self.thread.start(); return True
Start_Thread ==
    /\ caller.pc = "start_thread"
    /\ readers' = Append(readers, "loop")
    /\ thread' = Len(readers) + 1
    /\ caller' = NoCall
    /\ UNCHANGED <<svcVars, running, connected>>

DxNext ==
    \/ CallStart
    \/ CallStop
    \/ Stop_Run
    \/ Stop_Join
    \/ Stop_Clear
    \/ Start_Run
    \/ Start_Thread
    \/ \E r \in 1 .. Len(readers) : Reader(r)

\* the start() and stop() calls of one thread, concurrent with the reader threads
DxSpec == DxInit /\ [][DxNext]_vars


\* ------------------------------------------------------------------ claims
Calls == calls[TimerThread]
Ops(cs) == [i \in 1 .. Len(cs) |-> cs[i].op]

\* C1: a selectProfile() run that finds an interactive client returns at once: it leaves
\* currentEntry, the timers, the schedule and the source as they are and calls nothing
C1_UserPresentNoEffect ==
    [][(pc[TimerThread] = "sp_user" /\ users /\ pc'[TimerThread] # "sp_user")
        => /\ pc'[TimerThread] = "done"
           /\ exc'[TimerThread] = ""
           /\ calls'[TimerThread] = <<>>
           /\ UNCHANGED <<currentEntry, selectionTimer, orphans, schedule, srcProfile>>]_vars

\* a run has returned on finding the interactive client, an earlier run's entry in place
C1_Witness ==
    /\ pc[TimerThread] = "done" /\ exc[TimerThread] = "" /\ Calls = <<>>
    /\ users
    /\ currentEntry # NoEntry
    /\ ArmedTimers = 0

\* C2: no activateProfile() or start() call is made on the source while an interactive
\* client is present
C2_NeverPreemptsUser ==
    \A i \in 1 .. Len(Calls) :
        Calls[i].op \in {"activateProfile", "start"} => ~Calls[i].users

\* C3: at most one timer is armed (started, not cancelled, not fired yet), whatever the
\* interleaving of selectProfile() with the callbacks that call scheduleSelection()
C3_AtMostOneArmed == ArmedTimers <= 1

EvCalls == calls[EventThread]

\* the last instant the clock visits
Horizon == CHOOSE t \in Instants : \A u \in Instants : u <= t

\* the callback h has run to its end and is about to return
Returned(h) == pc[EventThread] = "done" /\ handler = h

\* C4: onDisable() cancels the armed timer and leaves currentEntry as it is; onEnable(), the
\* source enabled and not failed, arms a new timer for DefaultDelay seconds later, and that
\* timer runs selectProfile() unless it is cancelled first
C4_DisableEnable ==
    /\ [](Returned("onDisable") => ArmedTimers = 0 /\ exc[EventThread] = "")
    /\ [][pc[EventThread] = "disable" => currentEntry' = currentEntry]_vars
    /\ [](Returned("onEnable") /\ enabled /\ ~failed
            => /\ exc[EventThread] = ""
               /\ Ops(EvCalls) = <<"cancelTimer", "Timer", "Timer.start">>
               /\ ArmedTimers = 1
               /\ Armed(selectionTimer)
               /\ selectionTimer.due = now + DefaultDelay)
    /\ (Returned("onEnable") /\ Armed(selectionTimer) /\ selectionTimer.due <= Horizon)
          ~> (pc[TimerThread] = "sp_user" \/ ArmedTimers = 0)

\* onEnable() has armed its timer, after an onDisable() that kept the entry of an earlier run
C4_Witness ==
    /\ Returned("onEnable")
    /\ currentEntry # NoEntry
    /\ Armed(selectionTimer)
    /\ selectionTimer.due = now + DefaultDelay
    /\ selectionTimer.due <= Horizon

ShutdownHandlers == {"shutdown", "onFail", "onShutdown"}

\* C5: when shutdown() returns (called directly or from onFail/onShutdown) no timer is armed,
\* no subscription is left, each subscription was cancelled exactly once and nothing was
\* raised; a call on a scheduler that is torn down already changes nothing
C5_ShutdownIdempotent ==
    /\ [](pc[EventThread] = "done" /\ handler \in ShutdownHandlers
            => /\ exc[EventThread] = ""
               /\ ArmedTimers = 0
               /\ subscriptions = <<>>
               /\ \A s \in Subs : cancels[s] = 1
               /\ ~registered)
    /\ [][pc[EventThread] \in {"sd_subs", "sd_cancel", "sd_remove"} /\ ~registered
            => UNCHANGED <<schedVars, registered>>]_vars

\* a second shutdown() has returned: it cancelled no subscription
C5_Witness ==
    /\ pc[EventThread] = "done" /\ handler \in ShutdownHandlers
    /\ Ops(EvCalls) = <<"cancelTimer", "removeClient">>
    /\ nEvents = 2
    /\ \A s \in Subs : cancels[s] = 1
    /\ selectionTimer # NoTimer

\* the selectProfile() run has ended, and it had an entry from getCurrentEntry()
RanWithEntry ==
    /\ pc[TimerThread] = "done"
    /\ Len(Calls) >= 1
    /\ Calls[1].op = "currentEntry"
    /\ Calls[1].entry # NoEntry

\* after such a run: the entry is currentEntry and one timer is armed, for its scheduled end
EntrySetAndTimerArmed ==
    /\ Calls[1].entry = GetCurrentEntry(schedule, now)
    /\ currentEntry = Calls[1].entry
    /\ Len(Calls) >= 5
    /\ SubSeq(Ops(Calls), 1, 5) =
          <<"currentEntry", "cancelTimer", "Timer", "Timer.start", "activateProfile">>
    /\ Calls[5].profile = Calls[1].entry.profile
    /\ ArmedTimers = 1
    /\ Armed(selectionTimer)
    /\ selectionTimer.due = GetScheduledEnd(Calls[1].entry, now)

\* C6, as stated, of the runs that raise nothing: the entry is set,
\* activateProfile(entry.profile) is followed by start(), and one timer is armed for the
\* scheduled end
C6_ActivateThenStart ==
    RanWithEntry /\ exc[TimerThread] = ""
        => /\ EntrySetAndTimerArmed
           /\ Len(Calls) >= 6
           /\ Calls[6].op = "start"

\* C6, amended: start() follows activateProfile(entry.profile) exactly when that call
\* returned normally
C6_StartIfActivated ==
    RanWithEntry
        => /\ EntrySetAndTimerArmed
           /\ IF Calls[5].outcome = "ok"
              THEN Len(Calls) >= 6 /\ Calls[6].op = "start"
              ELSE \A i \in 1 .. Len(Calls) : Calls[i].op # "start"

\* a run has activated and started profile "a", its timer armed for the end of the window
C6_Witness ==
    /\ RanWithEntry
    /\ exc[TimerThread] = ""
    /\ Len(Calls) = 7
    /\ Calls[6].op = "start" /\ Calls[6].outcome = "ok"
    /\ currentEntry.profile = "a"
    /\ srcProfile = "a"
    /\ Armed(selectionTimer)
    /\ selectionTimer.due = 60

\* the selectProfile() run has ended, and getCurrentEntry() of its schedule returned none
RanWithoutEntry ==
    /\ pc[TimerThread] = "done"
    /\ sret[TimerThread] # "done"
    /\ Len(Calls) >= 1
    /\ Calls[1].op = "currentEntry"
    /\ Calls[1].entry = NoEntry

\* C7: getCurrentEntry() returning none, currentEntry is cleared; a timer is armed for the
\* next activation of getNextEntry()'s entry, and none when there is no such entry
C7_NoCurrentEntry ==
    RanWithoutEntry
        => /\ exc[TimerThread] = ""
           /\ currentEntry = NoEntry
           /\ LET nextEntry == GetNextEntry(schedule, now) IN
              IF nextEntry # NoEntry
              THEN /\ Ops(Calls) = <<"currentEntry", "checkStatus",
                                     "cancelTimer", "Timer", "Timer.start">>
                   /\ ArmedTimers = 1
                   /\ Armed(selectionTimer)
                   /\ selectionTimer.due = GetNextActivation(nextEntry, now)
              ELSE /\ Ops(Calls) = <<"currentEntry", "checkStatus">>
                   /\ ArmedTimers = 0

\* between the windows of the static schedule: the entry is cleared, the timer is armed for
\* the start of the next window
C7_Witness ==
    /\ RanWithoutEntry
    /\ now = 60
    /\ currentEntry = NoEntry
    /\ srcProfile = "a"
    /\ Armed(selectionTimer)
    /\ selectionTimer.due = 120

\* C8: a selectProfile() run that finds no interactive client and no schedule clears
\* currentEntry, creates no timer and calls checkStatus() only
C8_NoSchedule ==
    pc[TimerThread] = "done" /\ sret[TimerThread] = "done"
        => /\ exc[TimerThread] = ""
           /\ currentEntry = NoEntry
           /\ Calls = <<[op |-> "currentEntry", entry |-> NoEntry], [op |-> "checkStatus"]>>

\* the schedule was removed after a run had activated profile "a": the entry is cleared
C8_Witness ==
    /\ pc[TimerThread] = "done" /\ sret[TimerThread] = "done"
    /\ schedule = NoSchedule
    /\ srcProfile = "a"
    /\ currentEntry = NoEntry

\* the run called activateProfile() as its i-th call, with this outcome
Activated(i, outcome) ==
    /\ i \in 1 .. Len(Calls)
    /\ Calls[i].op = "activateProfile"
    /\ Calls[i].outcome = outcome

\* C9: after a run whose activateProfile() raised KeyError, nothing was raised by the run,
\* the source has the profile it had, and the scheduler holds no entry for the profile that
\* was not activated (it is an INACTIVE client)
C9_KeyErrorNotRecorded ==
    \A i \in 1 .. Len(Calls) :
        pc[TimerThread] = "done" /\ Activated(i, "KeyError")
            => /\ exc[TimerThread] = ""
               /\ srcProfile # Calls[i].profile
               /\ ~(currentEntry # NoEntry /\ currentEntry.profile = Calls[i].profile)
               /\ GetClientClass = "INACTIVE"

\* C10: a run whose activateProfile() or start() raised something else than KeyError ends
\* without an exception, checkStatus() being its last call
C10_OtherErrorsContained ==
    \A i \in 1 .. Len(Calls) :
        (/\ pc[TimerThread] = "done"
         /\ Calls[i].op \in {"activateProfile", "start"}
         /\ Calls[i].outcome = "Exception")
            => /\ exc[TimerThread] = ""
               /\ Calls[Len(Calls)].op = "checkStatus"

\* the due times of the armed timers
ArmedDues ==
    (IF Armed(selectionTimer) THEN {selectionTimer.due} ELSE {})
        \cup {orphans[i] : i \in 1 .. Len(orphans)}

\* parseSchedule() has returned, its 10-second timer started, and so has a selectProfile()
\* run that held an entry of the replaced schedule when the new schedule was assigned
ParsedDuringRun ==
    /\ Returned("parseSchedule")
    /\ pc[TimerThread] = "done"
    /\ Len(EvCalls) = 4
    /\ EvCalls[1].op = "parse"
    /\ EvCalls[1].pending # NoEntry
    /\ EvCalls[4].op = "Timer.start"
    /\ ~EvCalls[4].raised

\* C11: a configuration change that arrives during a selectProfile() run is not lost: once
\* both have completed, a timer is armed that runs the re-evaluation within DefaultDelay
\* seconds of the change
C11_EventNotLost ==
    ParsedDuringRun => \E d \in ArmedDues : d <= now + DefaultDelay

\* the i-th call made on the schedule was op
Called(i, op) == i \in 1 .. Len(EvCalls) /\ EvCalls[i].op = op

\* this step makes one call of op on the schedule, logged last
NewCall(op) ==
    /\ Len(calls'[EventThread]) = Len(EvCalls) + 1
    /\ calls'[EventThread][Len(EvCalls) + 1].op = op

\* the instant of the first getCurrentEntry() call (the first activation)
FirstActivation ==
    LET i == CHOOSE i \in 1 .. Len(EvCalls) :
                 /\ Called(i, "getCurrentEntry")
                 /\ \A j \in 1 .. (i - 1) : ~Called(j, "getCurrentEntry")
    IN EvCalls[i].at

\* C12: a getCurrentEntry() call made k * interval seconds after the first activation
\* returns profiles[k mod N], whatever calls were made in between
C12_RotationByElapsedTime ==
    \A i \in 1 .. Len(EvCalls) :
        Called(i, "getCurrentEntry") /\ (EvCalls[i].at - FirstActivation) % schedule.interval = 0
            => LET k == (EvCalls[i].at - FirstActivation) \div schedule.interval IN
               EvCalls[i].returned.profile =
                   schedule.profiles[(k % Len(schedule.profiles)) + 1]

\* C13: the first getCurrentEntry() returns profiles[0] until now + interval; a call at or
\* after the end time moves the cursor by one, modulo the length, and returns that profile
\* until now + interval; a call before the end time returns the same profile and end time
C13_RotationStep ==
    [][NewCall("getCurrentEntry")
        => LET returned == calls'[EventThread][Len(EvCalls) + 1].returned
               N == Len(schedule.profiles)
           IN /\ returned.kind = "rotation"
              /\ returned.profile = schedule.profiles[schedule'.current_index + 1]
              /\ returned.endTime = schedule'.current_end_time
              /\ returned.startTime = now
              /\ IF schedule.current_end_time = NoTime
                 THEN /\ schedule'.current_index = 0
                      /\ schedule'.current_end_time = now + schedule.interval
                 ELSE IF now >= schedule.current_end_time
                 THEN /\ schedule'.current_index = (schedule.current_index + 1) % N
                      /\ schedule'.current_end_time = now + schedule.interval
                 ELSE /\ schedule'.current_index = schedule.current_index
                      /\ schedule'.current_end_time = schedule.current_end_time
              /\ schedule'.profiles = schedule.profiles
              /\ schedule'.interval = schedule.interval]_vars

\* three calls: the first, one before the end time, and one later than the end time by
\* more than nothing, which wraps the cursor of two profiles around
C13_Witness ==
    /\ Len(EvCalls) = 3
    /\ \A i \in 1 .. 3 : Called(i, "getCurrentEntry")
    /\ EvCalls[1].at = 10 /\ EvCalls[2].at = 60 /\ EvCalls[3].at = 120
    /\ EvCalls[2].returned = [EvCalls[1].returned EXCEPT !.startTime = 60]
    /\ EvCalls[3].returned.profile = "b"
    /\ EvCalls[3].returned.endTime = 180
    /\ schedule.current_index = 1
    /\ Len(schedule.profiles) = 2

\* C14: getNextEntry() leaves the rotation schedule (the cursor, the end time) as it is
C14_NextEntryNoMutation ==
    [][NewCall("getNextEntry")
        => schedule' = schedule]_vars

\* getNextEntry() was called on a schedule whose cursor had moved and whose end time is set
C14_Witness ==
    /\ Called(Len(EvCalls), "getNextEntry")
    /\ EvCalls[Len(EvCalls)].before = schedule
    /\ schedule.current_index = 1
    /\ schedule.current_end_time # NoTime
    /\ EvCalls[Len(EvCalls)].returned # NoEntry

\* C15: getNextEntry() returns the profile after the cursor, modulo the length, in a window
\* that starts at the current end time (now if there is none), which is its next activation
C15_NextEntryWindow ==
    \A i \in 1 .. Len(EvCalls) :
        Called(i, "getNextEntry")
            => LET s == EvCalls[i].before
                   returned == EvCalls[i].returned
                   start == IF s.current_end_time # NoTime
                            THEN s.current_end_time ELSE EvCalls[i].at
               IN /\ returned.profile = s.profiles[((s.current_index + 1) % Len(s.profiles)) + 1]
                  /\ returned.startTime = start
                  /\ GetNextActivation(returned, EvCalls[i].at) = start

\* the next instant at or after t whose time of day is tod
NextOccurrence(tod, t) ==
    CHOOSE x \in {(t - (t % Day)) + tod, (t - (t % Day)) + tod + Day} :
        x >= t /\ x < t + Day

\* the windows of the static schedules
Window2300_0100 == [kind |-> "time", startTime |-> 82800, endTime |-> 3600, profile |-> "b"]
Window0600_1800 == [kind |-> "time", startTime |-> 21600, endTime |-> 64800, profile |-> "a"]

\* C16: a window with start > end is current exactly at the times of day t >= start or
\* t < end, a window with start < end exactly when start <= t < end; 2300-0100 is current
\* at 23:30 and 00:30, not at 01:00 and 22:59
C16_WindowIsCurrent ==
    /\ \A i \in 1 .. Len(schedule.entries) :
         LET e == schedule.entries[i]
             t == now % Day
         IN /\ e.startTime > e.endTime
                 => (IsCurrent(e, now) <=> (t >= e.startTime \/ t < e.endTime))
            /\ e.startTime < e.endTime
                 => (IsCurrent(e, now) <=> (e.startTime <= t /\ t < e.endTime))
            /\ e.startTime # e.endTime
                 => (IsCurrent(e, now) <=>
                        (t - e.startTime) % Day < (e.endTime - e.startTime) % Day)
    /\ \A t \in {84600, 1800, 88200} : IsCurrent(Window2300_0100, t)
    /\ \A t \in {3600, 82740, 90000} : ~IsCurrent(Window2300_0100, t)
    /\ \A i \in 1 .. Len(EvCalls) :
         Called(i, "getScheduledEnd")
             => EvCalls[i].current = ((EvCalls[i].at - EvCalls[i].before.startTime) % Day
                     < (EvCalls[i].before.endTime - EvCalls[i].before.startTime) % Day)

\* at 00:30 of the second day getCurrentEntry() returns the window 2300-0100, found current
C16_Witness ==
    /\ now = 88200
    /\ Len(EvCalls) = 2
    /\ Called(1, "getScheduledEnd")
    /\ EvCalls[1].before = Window2300_0100 /\ EvCalls[1].current
    /\ Called(2, "getCurrentEntry")
    /\ EvCalls[2].returned = Window2300_0100
    /\ Len(schedule.entries) = 2

\* C17: getScheduledEnd() of an entry that is current is the first instant at or after now
\* whose time of day is the end of the window: 0600-1800 at 07:00 ends at 18:00 of that
\* day, 2300-0100 at 23:30 at 01:00 of the next day
C17_ScheduledEnd ==
    /\ \A i \in 1 .. Len(EvCalls) :
         Called(i, "getScheduledEnd") /\ EvCalls[i].current
             => LET r == EvCalls[i].returned IN
                /\ r >= EvCalls[i].at
                /\ r % Day = EvCalls[i].before.endTime
                /\ r < EvCalls[i].at + Day
                /\ r = NextOccurrence(EvCalls[i].before.endTime, EvCalls[i].at)
    /\ GetScheduledEnd(Window0600_1800, 25200) = 64800
    /\ GetScheduledEnd(Window2300_0100, 84600) = 90000

\* getScheduledEnd() was called at 23:30 on the window 2300-0100, which getCurrentEntry()
\* returned: 01:00 of the next day
C17_Witness ==
    /\ now = 84600
    /\ Len(EvCalls) = 2
    /\ Called(1, "getCurrentEntry")
    /\ EvCalls[1].returned = Window2300_0100
    /\ Called(2, "getScheduledEnd")
    /\ EvCalls[2].before = EvCalls[1].returned
    /\ EvCalls[2].current
    /\ EvCalls[2].returned = 90000

\* C18: getNextEntry() of a static schedule returns none when there is no window, and
\* otherwise a window whose next activation (the next occurrence of its start, at or after
\* now) is the least of all windows
C18_StaticNextEntry ==
    \A i \in 1 .. Len(EvCalls) :
        Called(i, "getNextEntry")
            => LET es == EvCalls[i].before.entries
                   t == EvCalls[i].at
                   returned == EvCalls[i].returned
               IN IF es = <<>> THEN returned = NoEntry
                  ELSE /\ \E j \in 1 .. Len(es) : es[j] = returned
                       /\ GetNextActivation(returned, t) = NextOccurrence(returned.startTime, t)
                       /\ \A j \in 1 .. Len(es) :
                            NextOccurrence(returned.startTime, t)
                                <= NextOccurrence(es[j].startTime, t)

\* at 07:00 getNextEntry() returns the second window, 2300-0100, whose start is still
\* ahead that day, not the first, 0600-1800, whose start is the next day's
C18_Witness ==
    /\ now = 25200
    /\ Called(Len(EvCalls), "getNextEntry")
    /\ schedule.entries = <<Window0600_1800, Window2300_0100>>
    /\ EvCalls[Len(EvCalls)].returned = Window2300_0100

\* the kind of schedule the properties ask for, "none" for no schedule
ConfiguredType(p) ==
    IF "scheduler" \in DOMAIN p
    THEN IF "type" \notin DOMAIN p.scheduler THEN "static"
         ELSE IF p.scheduler.type \in {"static", "daylight", "rotation"}
         THEN p.scheduler.type ELSE "none"
    ELSE IF "schedule" \in DOMAIN p THEN "static" ELSE "none"

\* the "scheduler" property has a type that is none of static, daylight, rotation
UnknownType ==
    /\ "scheduler" \in DOMAIN props
    /\ "type" \in DOMAIN props.scheduler
    /\ props.scheduler.type \notin {"static", "daylight", "rotation"}

\* C19: Schedule.parse gives the schedule of the type of the scheduler block, a static
\* schedule for a top-level schedule key without scheduler block, and for an unknown type
\* no schedule, without raising; a selectProfile() run then clears currentEntry and arms no
\* timer
C19_ParseByType ==
    /\ \A p \in QueryProps : Parse(p).type = ConfiguredType(p)
    /\ Parse(LegacyProps) = StaticSchedule(LegacyProps.schedule)
    /\ Returned("parseSchedule")
         => /\ schedule = Parse(props)
            /\ schedule.type = ConfiguredType(props)
            /\ exc[EventThread] = ""
            /\ UnknownType => schedule = NoSchedule
    /\ pc[TimerThread] = "done" /\ UnknownType /\ ~(users /\ Calls = <<>>)
         => /\ schedule = NoSchedule
            /\ exc[TimerThread] = ""
            /\ currentEntry = NoEntry
            /\ ArmedTimers = 0
            /\ Calls = <<[op |-> "currentEntry", entry |-> NoEntry], [op |-> "checkStatus"]>>

\* after profile "a" was activated the scheduler block got an unknown type: the run that
\* followed has cleared currentEntry and no timer is armed
C19_Witness ==
    /\ pc[TimerThread] = "done"
    /\ UnknownType
    /\ schedule = NoSchedule
    /\ srcProfile = "a"
    /\ Len(Calls) = 2
    /\ currentEntry = NoEntry
    /\ ArmedTimers = 0

\* C20: a selectProfile() run whose getCurrentEntry() or getNextEntry() raised ends without
\* an exception and with currentEntry none
C20_QueryFailureContained ==
    \A i \in 1 .. Len(Calls) :
        (/\ pc[TimerThread] = "done"
         /\ Calls[i].op \in {"getCurrentEntry", "getNextEntry"}
         /\ Calls[i].raised # "")
            => /\ exc[TimerThread] = ""
               /\ currentEntry = NoEntry

\* t is the sunrise or the sunset of one of the dates around the instant at
IsSunEvent(sun, t, at) ==
    \E k \in -1 .. 2 :
        LET midnight == (at - (at % Day)) + k * Day
        IN t \in {midnight + sun.sunrise, midnight + sun.sunset}

\* C21: with a grey-line profile, getEntries() gives for every event one grey-line entry
\* [event - pad, event + pad]; the day or night entry before it ends at event - pad and
\* the one after it starts at event + pad
C21_GreyLineWindow ==
    \A i \in 1 .. Len(EvCalls) :
        (EvCalls[i].op = "getEntries" /\ "greyline" \in DOMAIN schedule.schedule)
            => LET es == EvCalls[i].returned
                   Grey(j) == es[j].profile = schedule.schedule.greyline
               IN /\ \E j \in 1 .. Len(es) : Grey(j)
                  /\ \A j \in 1 .. Len(es) :
                        IF Grey(j)
                        THEN /\ es[j].kind = "datetime"
                             /\ es[j].endTime - es[j].startTime = 2 * GreyLineTime
                             /\ IsSunEvent(EvCalls[i].sun, es[j].startTime + GreyLineTime,
                                           EvCalls[i].at)
                             /\ \A k \in 1 .. Len(es) :
                                   Grey(k) /\ k # j => es[k].startTime # es[j].startTime
                        ELSE /\ j < Len(es) /\ Grey(j + 1)
                             /\ es[j].endTime = es[j + 1].startTime
                             /\ j > 1 => /\ Grey(j - 1)
                                         /\ es[j].startTime = es[j - 1].endTime

\* getEntries() at 03:00 at longitude 0 with the three profiles: night until 05:00, grey
\* line until 07:00, day until 17:00, grey line until 19:00
C21_Witness ==
    /\ Called(1, "getEntries")
    /\ EvCalls[1].at = 97200
    /\ Len(EvCalls[1].returned) = 4
    /\ EvCalls[1].returned[1] = DatetimeScheduleEntry(97200, 104400, "n")
    /\ EvCalls[1].returned[2] = DatetimeScheduleEntry(104400, 111600, "g")
    /\ EvCalls[1].returned[3] = DatetimeScheduleEntry(111600, 147600, "d")
    /\ EvCalls[1].returned[4] = DatetimeScheduleEntry(147600, 154800, "g")

\* the callback in progress is one that asks for a re-evaluation
Trigger ==
    \/ handler \in {"onFrequencyChange", "parseSchedule", "onEnable"}
    \/ handler = "onStateChange" /\ harg = "STOPPING"
    \/ handler = "onBusyStateChange" /\ harg = "IDLE"

\* the calls a callback made on the timers
TimerOps(cs) == SelectSeq(Ops(cs), LAMBDA o : o # "parse")

StatusCalls == {i \in 1 .. Len(Calls) : Calls[i].op = "checkStatus"}

\* C23: a selectProfile() run that found no interactive client has called checkStatus()
\* exactly once when it ends, after setting currentEntry and after any activateProfile()
\* or start() call; a run that found an interactive client has not called it
C23_StatusOnce ==
    pc[TimerThread] = "done"
        => IF Calls = <<>> /\ exc[TimerThread] = ""
           THEN TRUE
           ELSE /\ Cardinality(StatusCalls) = 1
                /\ \A i \in StatusCalls :
                      /\ \E j \in 1 .. (i - 1) : Calls[j].op = "currentEntry"
                      /\ \A j \in 1 .. Len(Calls) :
                            Calls[j].op \in {"activateProfile", "start"} => j < i

\* C24: on a daylight schedule with a day or a night profile, when getCurrentEntry()
\* returns none, getNextEntry() at the same instant and position returns an entry whose
\* next activation is in the future
C24_DaylightNextEntry ==
    \A i, j \in 1 .. Len(EvCalls) :
        (/\ schedule.type = "daylight"
         /\ DOMAIN schedule.schedule \cap {"day", "night"} # {}
         /\ Called(i, "getCurrentEntry") /\ EvCalls[i].returned = NoEntry
         /\ Called(j, "getNextEntry") /\ EvCalls[j].sun = EvCalls[i].sun)
            => /\ EvCalls[j].returned # NoEntry
               /\ GetNextActivation(EvCalls[j].returned, EvCalls[j].at) > EvCalls[j].at

\* C25, of a source that still reports enabled and not failed: once shutdown() has
\* returned (its last statement removed the scheduler from the source's clients) no timer
\* is armed and no run is about to call activateProfile()
C25_QuietAfterShutdown ==
    (~registered /\ enabled /\ ~failed)
        => ArmedTimers = 0 /\ pc[TimerThread] # "sce_activate"

\* C26: a selectProfile() run that passed the "schedule is None" check does not find the
\* schedule absent when it calls getCurrentEntry() or getNextEntry() on it
C26_ScheduleNotAbsent ==
    /\ pc[TimerThread] \in {"sp_query", "sp_next"} => schedule # NoSchedule
    /\ exc[TimerThread] # "AttributeError"

\* C27: a reader thread that stop() asked to end (self.thread does not refer to it any
\* more) finds self.running false at its next test: it does not go on to connect, to
\* read, or to wait for a reconnection
C27_StoppedReaderEnds ==
    [][\A r \in 1 .. Len(readers) :
          (r # thread /\ caller.pc \notin {"stop_run", "stop_join", "stop_clear"}
             /\ readers'[r] # readers[r])
              => readers'[r] \notin {"connect", "recv", "sleep"}]_vars
====
